---------------------------- MODULE Spec2Model ----------------------------
(***************************************************************************)
(* A model of Poke-Guesser (src/script.js): the daily target selection     *)
(* (getDailySeed, cyrb128, sfc32, selectDailyPokemon), the guess scorer    *)
(* (compareGuess) and the session kept in the script's globals and in      *)
(* localStorage (handleSubmitGuess, handleHintClick, saveGameState,        *)
(* loadGameState, initializeGame).                                         *)
(*                                                                         *)
(* Strings are sequences of one-character strings, so that trim,           *)
(* toLowerCase, padStart and charCodeAt are computed, not assumed.         *)
(* 32-bit words are pairs <<high 16 bits, low 16 bits>>, so that Math.imul *)
(* and the shifts keep their width.                                        *)
(***************************************************************************)
EXTENDS Integers, Sequences, FiniteSets, TLC

\* The clock advances at most this many midnights past ClockStart.
MaxDay == 1

-----------------------------------------------------------------------------
(* Strings *)

\* String.prototype.toLowerCase, one character.
LowerChar(c) ==
    CASE c = "A" -> "a"
      [] c = "B" -> "b"
      [] c = "C" -> "c"
      [] c = "O" -> "o"
      [] c = "Y" -> "y"
      [] c = "Z" -> "z"
      [] OTHER -> c

toLowerCase(s) == [i \in 1..Len(s) |-> LowerChar(s[i])]

\* String.prototype.trim: leading and trailing white space removed.
RECURSIVE TrimStart(_)
TrimStart(s) ==
    IF s # << >> /\ Head(s) = " " THEN TrimStart(Tail(s)) ELSE s

RECURSIVE TrimEnd(_)
TrimEnd(s) ==
    IF s # << >> /\ s[Len(s)] = " " THEN TrimEnd(SubSeq(s, 1, Len(s) - 1)) ELSE s

trim(s) == TrimEnd(TrimStart(s))

Digits == <<"0", "1", "2", "3", "4", "5", "6", "7", "8", "9">>

\* Number.prototype.toString of a non-negative integer.
RECURSIVE toString(_)
toString(n) ==
    IF n < 10 THEN <<Digits[n + 1]>>
    ELSE toString(n \div 10) \o <<Digits[(n % 10) + 1]>>

\* String.prototype.padStart(width, '0').
RECURSIVE padStart(_, _)
padStart(s, width) ==
    IF Len(s) >= width THEN s ELSE padStart(<<"0">> \o s, width)

\* String.prototype.charCodeAt for the characters a date string holds.
charCode(c) == 47 + (CHOOSE d \in 1..10 : Digits[d] = c)

-----------------------------------------------------------------------------
(* 32-bit words: <<high half, low half>>, each half in 0..65535 *)

Half == 256 * 256

RECURSIVE XorBits(_, _, _)
XorBits(a, b, n) ==
    IF n = 0 THEN 0
    ELSE ((a + b) % 2) + 2 * XorBits(a \div 2, b \div 2, n - 1)

RECURSIVE OrBits(_, _, _)
OrBits(a, b, n) ==
    IF n = 0 THEN 0
    ELSE (IF (a % 2) + (b % 2) > 0 THEN 1 ELSE 0)
         + 2 * OrBits(a \div 2, b \div 2, n - 1)

RECURSIVE Pow2(_)
Pow2(n) == IF n = 0 THEN 1 ELSE 2 * Pow2(n - 1)

\* x ^ y
Xor32(x, y) == <<XorBits(x[1], y[1], 16), XorBits(x[2], y[2], 16)>>

\* x | y
Or32(x, y) == <<OrBits(x[1], y[1], 16), OrBits(x[2], y[2], 16)>>

\* x ^ k for a character code k (below 65536)
XorCode(x, k) == Xor32(x, <<0, k>>)

\* (x + y) | 0
Add32(x, y) ==
    LET lo == x[2] + y[2]
    IN  <<(x[1] + y[1] + (lo \div Half)) % Half, lo % Half>>

\* The full 32-bit product of two 16-bit halves, computed bytewise.
Mul16(a, b) ==
    LET p1  == (a \div 256) * b
        p0  == (a % 256) * b
        low == ((p1 % 256) * 256) + p0
    IN  <<((p1 \div 256) + (low \div Half)) % Half, low % Half>>

\* Math.imul(x, y): the low 32 bits of the product.
imul(x, y) ==
    LET ll == Mul16(x[2], y[2])
        hl == Mul16(x[1], y[2])
        lh == Mul16(x[2], y[1])
    IN  <<(ll[1] + hl[2] + lh[2]) % Half, ll[2]>>

\* x >>> k, 0 < k < 32
ShiftRightU(x, k) ==
    IF k >= 16 THEN <<0, x[1] \div Pow2(k - 16)>>
    ELSE <<x[1] \div Pow2(k),
           (x[2] \div Pow2(k)) + ((x[1] % Pow2(k)) * Pow2(16 - k))>>

\* x << k, 0 < k < 32
ShiftLeft(x, k) ==
    IF k >= 16 THEN <<(x[2] * Pow2(k - 16)) % Half, 0>>
    ELSE <<((x[1] * Pow2(k)) % Half) + (x[2] \div Pow2(16 - k)),
           (x[2] * Pow2(k)) % Half>>

-----------------------------------------------------------------------------
(* The generator *)

\* The multipliers of cyrb128: 597399067, 2869860233, 951274213, 2716044179.
CyrbM1 == <<9115, 38427>>
CyrbM2 == <<43790, 38793>>
CyrbM3 == <<14515, 19173>>
CyrbM4 == <<41443, 35731>>

\* The initial h1..h4: 1779033703, 3144134277, 1013904242, 2773480762.
CyrbInit == << <<27145, 58983>>, <<47975, 44677>>, <<15470, 62322>>, <<42319, 62778>> >>

\* One round of the loop of cyrb128 on character code k.
CyrbRound(h, k) ==
    LET h1 == Xor32(h[2], imul(XorCode(h[1], k), CyrbM1))
        h2 == Xor32(h[3], imul(XorCode(h[2], k), CyrbM2))
        h3 == Xor32(h[4], imul(XorCode(h[4], k), CyrbM3))
        h4 == Xor32(h1, imul(XorCode(h[4], k), CyrbM4))
    IN  <<h1, h2, h3, h4>>

RECURSIVE CyrbLoop(_, _, _)
CyrbLoop(h, str, i) ==
    IF i > Len(str) THEN h
    ELSE CyrbLoop(CyrbRound(h, charCode(str[i])), str, i + 1)

\* cyrb128(str): the four 32-bit seeds.
cyrb128(str) ==
    LET h  == CyrbLoop(CyrbInit, str, 1)
        a1 == imul(Xor32(h[3], ShiftRightU(h[1], 18)), CyrbM1)
        a2 == imul(Xor32(h[4], ShiftRightU(h[2], 22)), CyrbM2)
        a3 == imul(Xor32(a1, ShiftRightU(h[3], 17)), CyrbM3)
        a4 == imul(Xor32(a2, ShiftRightU(h[4], 19)), CyrbM4)
        b1 == Xor32(a1, Xor32(a2, Xor32(a3, a4)))
        b2 == Xor32(a2, b1)
        b3 == Xor32(a3, b1)
        b4 == Xor32(a4, b1)
    IN  <<b1, b2, b3, b4>>

\* One call of the closure sfc32 returns: the new state a, b, c, d and the
\* 32-bit value t that is divided by 4294967296.
sfc32(s) ==
    LET a == s[1]
        b == s[2]
        c == s[3]
        d == s[4]
        t  == Add32(Add32(a, b), d)
        d1 == Add32(d, <<0, 1>>)
        a1 == Xor32(b, ShiftRightU(b, 9))
        b1 == Add32(c, ShiftLeft(c, 3))
        c1 == Or32(ShiftLeft(c, 21), ShiftRightU(c, 11))
        c2 == Add32(c1, t)
    IN  [state |-> <<a1, b1, c2, d1>>, t |-> t]

\* seededRandom(seedString): the generator's initial state.
seededRandom(seedString) == cyrb128(seedString)

\* getDailySeed() on a day whose local date is date: the year, the month and
\* the day of the month, the last two padded to two digits.
getDailySeed(date) ==
    toString(date.year) \o padStart(toString(date.month), 2)
                        \o padStart(toString(date.day), 2)

\* Math.round in the place of Math.floor.
FloorDrawRounded(t, n) ==
    ((t[1] * n + ((t[2] * n) \div Half)) + (Half \div 2)) \div Half

\* Math.floor(rng() * n) for the generator's first draw t / 4294967296:
\* floor(t * n / 2^32), exact in double precision for the n used here.
FloorDraw(t, n) == (t[1] * n + ((t[2] * n) \div Half)) \div Half

\* What data[randomIndex] is when the index is outside the array (undefined).
UndefinedPokemon ==
    [name |-> <<"u", "n", "d", "e", "f", "i", "n", "e", "d">>, hp |-> 0,
     attack |-> 0, defense |-> 0, sp_attack |-> 0, sp_defense |-> 0,
     speed |-> 0, type1 |-> "", type2 |-> "", generation |-> ""]

\* data[Math.floor(r * data.length)] for the draw r = t / 4294967296.
SelectByDraw(data, t) ==
    LET randomIndex == FloorDraw(t, Len(data))
    IN  IF randomIndex + 1 \in 1..Len(data) THEN data[randomIndex + 1]
        ELSE UndefinedPokemon

\* selectDailyPokemon(data) on the given date.
selectDailyPokemon(data, date) ==
    LET rng == seededRandom(getDailySeed(date))
    IN  SelectByDraw(data, sfc32(rng).t)

-----------------------------------------------------------------------------
(* The dataset and the clock *)

STATS == <<"hp", "attack", "defense", "sp_attack", "sp_defense", "speed">>
HINTS == <<"type1", "type2", "generation">>

\* The records pokemon_data.json delivers.  A record without a second type
\* has type2 = "".
Dataset ==
    << [name |-> <<"A", "b">>, hp |-> 45, attack |-> 49, defense |-> 49,
        sp_attack |-> 65, sp_defense |-> 65, speed |-> 45,
        type1 |-> "grass", type2 |-> "poison", generation |-> "1"],
       [name |-> <<"B", "o">>, hp |-> 50, attack |-> 55, defense |-> 49,
        sp_attack |-> 60, sp_defense |-> 71, speed |-> 66,
        type1 |-> "normal", type2 |-> "", generation |-> "2"] >>

\* The value of targetPokemon before a target is selected (null).
NullPokemon ==
    [name |-> <<"n", "u", "l", "l">>, hp |-> 0, attack |-> 0, defense |-> 0,
     sp_attack |-> 0, sp_defense |-> 0, speed |-> 0,
     type1 |-> "", type2 |-> "", generation |-> ""]

\* The local date of the first day of the model; day k is k days later.
ClockStart == [year |-> 2026, month |-> 3, day |-> 9]

\* new Date() on day k (the model stays within one month).
DateOf(k) == [ClockStart EXCEPT !.day = ClockStart.day + k]

\* What the player can type into the input element.
Inputs ==
    { <<" ">>,
      <<" ", "a", "b", " ">>,
      <<"A", "B">>,
      <<"b", "O">>,
      <<"C", "y">> }

-----------------------------------------------------------------------------
(* The scorer *)

\* The value of a decimal digit character.
DigitValue(c) == (CHOOSE d \in 1..10 : Digits[d] = c) - 1

RECURSIVE ParseDigits(_, _)
ParseDigits(s, acc) ==
    IF s = << >> THEN acc
    ELSE ParseDigits(Tail(s), (10 * acc) + DigitValue(Head(s)))

\* parseInt(v) of a non-negative integer v: the integer its decimal string
\* spells.
parseInt(v) == ParseDigits(toString(v), 0)

closeRange == 5
totalCloseRange == 20

Abs(n) == IF n < 0 THEN 0 - n ELSE n

\* The colour class with the proximity test made before the equality test.
ColorClassProximityFirst(guessVal, targetVal, range) ==
    IF Abs(guessVal - targetVal) <= range THEN "yellow"
    ELSE IF guessVal = targetVal THEN "green"
    ELSE "red"

\* The colour class and the indicator of one feedback entry.
ColorClass(guessVal, targetVal, range) ==
    IF guessVal = targetVal THEN "green"
    ELSE IF Abs(guessVal - targetVal) <= range THEN "yellow"
    ELSE "red"

\* The indicator with its two arrows exchanged.
IndicatorInverted(guessVal, targetVal) ==
    IF guessVal < targetVal THEN "lower"
    ELSE IF guessVal > targetVal THEN "higher"
    ELSE ""

Indicator(guessVal, targetVal) ==
    IF guessVal < targetVal THEN "higher"
    ELSE IF guessVal > targetVal THEN "lower"
    ELSE ""

RECURSIVE SumStats(_, _)
SumStats(pokemon, i) ==
    IF i > Len(STATS) THEN 0
    ELSE parseInt(pokemon[STATS[i]]) + SumStats(pokemon, i + 1)

\* compareGuess as it was before the total was added: the six entries only.
compareGuessWithoutTotal(guessPokemon, target) ==
    LET entry(stat) ==
            LET guessVal  == parseInt(guessPokemon[stat])
                targetVal == parseInt(target[stat])
            IN  [stat |-> stat, value |-> guessVal,
                 class |-> ColorClass(guessVal, targetVal, closeRange),
                 indicator |-> Indicator(guessVal, targetVal)]
    IN  [i \in 1..Len(STATS) |-> entry(STATS[i])]

\* compareGuess(guessPokemon, targetPokemon): six entries, then the total.
compareGuess(guessPokemon, target) ==
    LET entry(stat) ==
            LET guessVal  == parseInt(guessPokemon[stat])
                targetVal == parseInt(target[stat])
            IN  [stat |-> stat, value |-> guessVal,
                 class |-> ColorClass(guessVal, targetVal, closeRange),
                 indicator |-> Indicator(guessVal, targetVal)]
        guessTotal  == SumStats(guessPokemon, 1)
        targetTotal == SumStats(target, 1)
    IN  [i \in 1..Len(STATS) |-> entry(STATS[i])]
        \o << [stat |-> "total", value |-> guessTotal,
               class |-> ColorClass(guessTotal, targetTotal, totalCloseRange),
               indicator |-> Indicator(guessTotal, targetTotal)] >>

-----------------------------------------------------------------------------
(* The page: the script's globals, the stored item and the clock *)

VARIABLES
    today,              \* the clock: days since ClockStart (new Date())
    pc,                 \* where initializeGame is: "fetching", "ready"
                        \* (listeners registered), "failed" (the catch
                        \* returned), "crashed" (an exception escaped)
    pokemonData,        \* let pokemonData
    targetPokemon,      \* let targetPokemon
    guesses,            \* let guesses
    gameHistoryString,  \* let gameHistoryString
    hintsUsed,          \* let hintsUsed
    gameWon,            \* let gameWon
    localStorage,       \* the item 'pokeGuesserState': << >> or <<text>>
    message,            \* the text of the element 'message'
    lastEvent           \* the last event the page saw and its argument

session == <<guesses, gameHistoryString, hintsUsed, gameWon>>
vars == <<today, pc, pokemonData, targetPokemon, guesses, gameHistoryString,
          hintsUsed, gameWon, localStorage, message, lastEvent>>

NoHints == [type1 |-> FALSE, type2 |-> FALSE, generation |-> FALSE]

MsgEmpty     == "Please enter a Pokemon name."
MsgInvalid   == "Invalid Pokemon name. Try again."
MsgDuplicate == "You already guessed that Pokemon!"
MsgVictory   == "CONGRATULATIONS!"
MsgLoadError == "Error loading Pokemon data."

Event(op, arg) == [op |-> op, arg |-> arg]

\* JSON.stringify of a state object: a text that parses back to its value.
JSONstringify(value) == [parses |-> TRUE, value |-> value]

\* JSON.parse of a stored text that parses.
JSONparse(text) == text.value

\* saveGameState as it was before the history string existed: the state
\* object carries no history.
SavedStateWithoutHistory(g, hist, hints, won) ==
    [date |-> getDailySeed(DateOf(today)),
     guesses |-> g,
     hintsUsed |-> hints,
     gameWon |-> won,
     gameHistoryString |-> << >>]

\* The state object saveGameState builds from the globals given.
SavedState(g, hist, hints, won) ==
    [date |-> getDailySeed(DateOf(today)),
     guesses |-> g,
     hintsUsed |-> hints,
     gameWon |-> won,
     gameHistoryString |-> hist]

\* saveGameState() once the globals have the values given.
saveGameState(g, hist, hints, won) ==
    localStorage' = <<JSONstringify(SavedState(g, hist, hints, won))>>

\* The date check reduced to "the state has a date".
StateIsForAnyDay(state) == state.date # << >>

\* The object has the property (a missing property reads as undefined).
Has(state, key) == key \in DOMAIN state

\* state.date === getDailySeed()
StateIsForToday(state) ==
    Has(state, "date") /\ state.date = getDailySeed(DateOf(today))

\* The restore without the line that takes the history from the state.
RestoredHistoryLost(state) == << >>

\* state.gameHistoryString || ''
RestoredHistory(state) ==
    IF Has(state, "gameHistoryString") /\ state.gameHistoryString # << >>
    THEN state.gameHistoryString
    ELSE << >>

\* A restore that scores the stored guesses again, against the target just
\* selected.
RestoredGuessesRescored(state) ==
    [i \in 1..Len(state.guesses) |->
        [state.guesses[i] EXCEPT
            !.feedback = compareGuess(state.guesses[i].pokemon, targetPokemon')]]

\* guesses = state.guesses
RestoredGuesses(state) == state.guesses

\* The array in the order opposite to its own.
Reverse(g) == [i \in 1..Len(g) |-> g[(Len(g) + 1) - i]]

\* renderGuessHistory reversing the global array itself, guesses.reverse().
renderGuessHistoryInPlace(g) == Reverse(g)

\* The global array g after renderGuessHistory(): the rows are built from
\* a reversed copy, [...guesses].reverse(), and the array itself is left in
\* the order of the guesses.
renderGuessHistory(g) ==
    LET copy == [i \in 1..Len(g) |-> g[i]]
        rows == Reverse(copy)
    IN  g

\* JSON.parse(storedState) throws.
LoadThrows == localStorage # << >> /\ ~localStorage[1].parses

\* The path loadGameState takes, recorded with the event.
LoadBranch ==
    IF localStorage = << >> THEN "no-item"
    ELSE IF LoadThrows THEN "threw"
    ELSE IF StateIsForToday(JSONparse(localStorage[1])) THEN "restored"
    ELSE "removed"

\* loadGameState(), when JSON.parse does not throw, with the
\* renderGuessHistory() that follows it in initializeGame.  A global that is
\* assigned undefined is shown with its initial value: guesses and hintsUsed
\* are then never read again (RendersThrow), gameWon is only tested for truth.
loadGameState ==
    IF localStorage = << >>
    THEN UNCHANGED <<session, localStorage, message>>
    ELSE LET state == JSONparse(localStorage[1])
         IN  IF StateIsForToday(state)
             THEN /\ guesses' = IF Has(state, "guesses")
                                 THEN renderGuessHistory(RestoredGuesses(state))
                                 ELSE << >>
                  /\ hintsUsed' = IF Has(state, "hintsUsed")
                                   THEN state.hintsUsed ELSE NoHints
                  /\ gameWon' = (Has(state, "gameWon") /\ state.gameWon)
                  /\ gameHistoryString' = RestoredHistory(state)
                  /\ message' = IF gameWon' /\ Has(state, "guesses")
                                     /\ Has(state, "hintsUsed")
                                     /\ targetPokemon' # UndefinedPokemon
                                  THEN MsgVictory ELSE message
                  /\ UNCHANGED localStorage
             ELSE /\ localStorage' = << >>
                  /\ UNCHANGED <<session, message>>

\* renderVictoryMessage, renderHints or renderGuessHistory throws a
\* TypeError: the target is undefined (targetPokemon.name, line 124, or
\* targetPokemon.type2, lines 283 and 287), or the restored guesses
\* (guesses.length, lines 94 and 246) or hint flags (hintsUsed[h], line 96,
\* hintsUsed.type1, line 282) are.
RendersThrow ==
    \/ targetPokemon' = UndefinedPokemon
    \/ /\ localStorage # << >>
       /\ StateIsForToday(JSONparse(localStorage[1]))
       /\ \/ ~Has(JSONparse(localStorage[1]), "guesses")
          \/ ~Has(JSONparse(localStorage[1]), "hintsUsed")

\* The script is loaded: the globals get their initial values and
\* initializeGame runs up to its await of the fetch.
PageLoad ==
    /\ pc' = "fetching"
    /\ pokemonData' = << >>
    /\ targetPokemon' = NullPokemon
    /\ guesses' = << >>
    /\ gameHistoryString' = << >>
    /\ hintsUsed' = NoHints
    /\ gameWon' = FALSE
    /\ message' = ""
    /\ lastEvent' = Event("load", << >>)
    /\ UNCHANGED <<today, localStorage>>

\* The catch of initializeGame without its return: initialization goes on
\* and registers the listeners.
initializeGameCatchFallsThrough ==
    /\ pc = "fetching"
    /\ pc' = "ready"
    /\ message' = MsgLoadError
    /\ lastEvent' = Event("fetch-failed", << >>)
    /\ UNCHANGED <<today, pokemonData, targetPokemon, session, localStorage>>

\* The fetch fails: the catch of initializeGame reports and returns.
initializeGameCatch ==
    /\ pc = "fetching"
    /\ pc' = "failed"
    /\ message' = MsgLoadError
    /\ lastEvent' = Event("fetch-failed", << >>)
    /\ UNCHANGED <<today, pokemonData, targetPokemon, session, localStorage>>

\* initializeGame with a selection that is not a function of the date alone:
\* the seed is a day later when the store holds an item.
initializeGameWithStoreSeeded(data) ==
    /\ pc = "fetching"
    /\ pokemonData' = data
    /\ targetPokemon' =
          selectDailyPokemon(data, DateOf(today + Len(localStorage)))
    /\ lastEvent' = Event("fetch-resolved", <<LoadBranch>>)
    /\ IF LoadThrows
       THEN /\ pc' = "crashed"
            /\ UNCHANGED <<session, localStorage, message>>
       ELSE /\ loadGameState
            /\ pc' = IF RendersThrow THEN "crashed" ELSE "ready"
    /\ UNCHANGED today

\* The fetch resolves with data: initializeGame selects the target, loads
\* the stored state, renders and registers the listeners, unless an
\* exception escapes on the way.
initializeGameWith(data) ==
    /\ pc = "fetching"
    /\ pokemonData' = data
    /\ targetPokemon' = selectDailyPokemon(data, DateOf(today))
    /\ lastEvent' = Event("fetch-resolved", <<LoadBranch>>)
    /\ IF LoadThrows
       THEN /\ pc' = "crashed"
            /\ UNCHANGED <<session, localStorage, message>>
       ELSE /\ loadGameState
            /\ pc' = IF RendersThrow THEN "crashed" ELSE "ready"
    /\ UNCHANGED today

\* The fetch resolves with the dataset.
initializeGame == initializeGameWith(Dataset)

\* Midnight passes while the page is in whatever state it is.
Midnight ==
    /\ today < MaxDay
    /\ today' = today + 1
    /\ lastEvent' = Event("midnight", << >>)
    /\ UNCHANGED <<pc, pokemonData, targetPokemon, session, localStorage, message>>

-----------------------------------------------------------------------------
(* The handlers *)

\* The addEventListener calls made before the await of the fetch.
ListenersRegisteredAtLoad == pc \in {"fetching", "ready"}

\* The listeners are registered: initializeGame has reached its last lines.
ListenersRegistered == pc = "ready"

\* handleSubmitGuess without its first line.
SubmitNeverReturnsAtOnce == FALSE

\* if (gameWon) return;
SubmitReturnsAtOnce == gameWon

\* find(...) || pokemonData[0]: the first record when nothing matches.
FindPokemonOrFirst(guessName) ==
    LET hits == {i \in 1..Len(pokemonData) :
                    toLowerCase(pokemonData[i].name) = toLowerCase(guessName)}
    IN  IF hits = {} THEN 1 ELSE CHOOSE i \in hits : \A j \in hits : i <= j

\* pokemonData.find(p => p.name.toLowerCase() === guessName.toLowerCase()):
\* the index of the first match, 0 when there is none.
FindPokemon(guessName) ==
    LET hits == {i \in 1..Len(pokemonData) :
                    toLowerCase(pokemonData[i].name) = toLowerCase(guessName)}
    IN  IF hits = {} THEN 0 ELSE CHOOSE i \in hits : \A j \in hits : i <= j

\* The duplicate check without toLowerCase.
AlreadyGuessedCaseSensitive(guessName) ==
    \E i \in 1..Len(guesses) : guesses[i].name = guessName

\* guesses.some(g => g.name.toLowerCase() === guessName.toLowerCase())
AlreadyGuessed(guessName) ==
    \E i \in 1..Len(guesses) :
        toLowerCase(guesses[i].name) = toLowerCase(guessName)

\* The win check comparing the guessed record with the typed name, which
\* find has already matched.
IsTargetSelfCompare(guessedPokemon) ==
    toLowerCase(guessedPokemon.name) = toLowerCase(guessedPokemon.name)

\* guessedPokemon.name.toLowerCase() === targetPokemon.name.toLowerCase()
IsTarget(guessedPokemon) ==
    toLowerCase(guessedPokemon.name) = toLowerCase(targetPokemon.name)

\* handleSubmitGuess() with inputValue in the input element.
handleSubmitGuess(inputValue) ==
    /\ ListenersRegistered
    /\ lastEvent' = Event("submit", inputValue)
    /\ UNCHANGED <<today, pc, pokemonData, targetPokemon, hintsUsed>>
    /\ LET guessName == trim(inputValue)
           found == FindPokemon(guessName)
       IN  IF SubmitReturnsAtOnce
           THEN UNCHANGED <<guesses, gameHistoryString, gameWon, localStorage, message>>
           ELSE IF guessName = << >>
           THEN /\ message' = MsgEmpty
                /\ UNCHANGED <<guesses, gameHistoryString, gameWon, localStorage>>
           ELSE IF found = 0
           THEN /\ message' = MsgInvalid
                /\ UNCHANGED <<guesses, gameHistoryString, gameWon, localStorage>>
           ELSE IF AlreadyGuessed(guessName)
           THEN /\ message' = MsgDuplicate
                /\ UNCHANGED <<guesses, gameHistoryString, gameWon, localStorage>>
           ELSE LET guessedPokemon == pokemonData[found]
                    feedback == compareGuess(guessedPokemon, targetPokemon)
                    win == IsTarget(guessedPokemon)
                IN  /\ guesses' = renderGuessHistory(Append(guesses,
                            [name |-> guessedPokemon.name,
                             pokemon |-> guessedPokemon,
                             feedback |-> feedback]))
                    /\ gameHistoryString' =
                            Append(gameHistoryString, IF win THEN "O" ELSE "X")
                    /\ gameWon' = (win \/ gameWon)
                    /\ message' = IF win THEN MsgVictory ELSE ""
                    /\ saveGameState(guesses', gameHistoryString', hintsUsed, gameWon')

\* The first line of handleHintClick testing gameWon alone.
HintReturnsAtOnceWonOnly(hintType) == gameWon

\* if (gameWon || hintsUsed[hintType]) return;
HintReturnsAtOnce(hintType) == gameWon \/ hintsUsed[hintType]

\* The switch of handleHintClick with 'T' for both types.
HintSymbolTypesAlike(hintType) ==
    CASE hintType = "type1" -> "T"
      [] hintType = "type2" -> "T"
      [] hintType = "generation" -> "G"

\* The switch of handleHintClick.
HintSymbol(hintType) ==
    CASE hintType = "type1" -> "T"
      [] hintType = "type2" -> "Y"
      [] hintType = "generation" -> "G"

\* handleHintClick(hintType)
handleHintClick(hintType) ==
    /\ ListenersRegistered
    /\ lastEvent' = Event("hint", <<hintType>>)
    /\ UNCHANGED <<today, pc, pokemonData, targetPokemon, guesses, gameWon, message>>
    /\ IF HintReturnsAtOnce(hintType)
       THEN UNCHANGED <<gameHistoryString, hintsUsed, localStorage>>
       ELSE /\ gameHistoryString' = Append(gameHistoryString, HintSymbol(hintType))
            /\ hintsUsed' = [hintsUsed EXCEPT ![hintType] = TRUE]
            /\ saveGameState(guesses, gameHistoryString', hintsUsed', gameWon)

-----------------------------------------------------------------------------
(* The specification *)

Init ==
    /\ today = 0
    /\ pc = "fetching"
    /\ pokemonData = << >>
    /\ targetPokemon = NullPokemon
    /\ guesses = << >>
    /\ gameHistoryString = << >>
    /\ hintsUsed = NoHints
    /\ gameWon = FALSE
    /\ localStorage = << >>
    /\ message = ""
    /\ lastEvent = Event("load", << >>)

Next ==
    \/ PageLoad
    \/ initializeGame
    \/ initializeGameCatch
    \/ Midnight
    \/ \E inputValue \in Inputs : handleSubmitGuess(inputValue)
    \/ \E i \in 1..Len(HINTS) : handleHintClick(HINTS[i])

Spec == Init /\ [][Next]_vars

\* A text that JSON.parse rejects.
UnparsableText ==
    [parses |-> FALSE,
     value |-> [date |-> << >>, guesses |-> << >>, hintsUsed |-> NoHints,
                gameWon |-> FALSE, gameHistoryString |-> << >>]]

\* Something other than this script leaves an unparsable text under the key
\* (the store is shared by every page of the origin and is user-editable).
StorageCorrupted ==
    /\ localStorage # <<UnparsableText>>
    /\ localStorage' = <<UnparsableText>>
    /\ lastEvent' = Event("storage", << >>)
    /\ UNCHANGED <<today, pc, pokemonData, targetPokemon, session, message>>

NextStorage == Next \/ StorageCorrupted

\* The page with a store that can hold an unparsable text.
SpecStorage == Init /\ [][NextStorage]_vars

\* The fetch resolves with a dataset that has no record.
initializeGameEmpty == initializeGameWith(<< >>)

NextData == Next \/ initializeGameEmpty

\* The page when pokemon_data.json may hold an empty array.
SpecData == Init /\ [][NextData]_vars

\* The state object without the property key.
Without(state, key) == [k \in (DOMAIN state) \ {key} |-> state[k]]

\* The properties of a state object other than its date.
StateFields == {"guesses", "hintsUsed", "gameWon", "gameHistoryString"}

\* While the page waits for the fetch, the store comes to hold a state
\* object of today that lacks one property: a session with the type1 hint
\* revealed and nothing else, as another version of the page would have
\* written it.  The store is read by loadGameState only, so the item
\* matters only then.
StorageLacksField(key) ==
    /\ pc = "fetching"
    /\ lastEvent.op = "load"
    /\ LET base == SavedState(<< >>, <<"T">>,
                              [NoHints EXCEPT !.type1 = TRUE], FALSE)
       IN  localStorage' = <<JSONstringify(Without(base, key))>>
    /\ lastEvent' = Event("storage", <<key>>)
    /\ UNCHANGED <<today, pc, pokemonData, targetPokemon, session, message>>

NextFields == Next \/ \E key \in StateFields : StorageLacksField(key)

\* The page with a store that can hold a state object lacking a property.
SpecFields == Init /\ [][NextFields]_vars

-----------------------------------------------------------------------------
(* The scorer on its own *)

\* Records to score: values at, next to and away from the target's, below
\* and above, with one to three digits.
ScoreCandidates ==
    [name : {<<"G">>},
     hp : {9, 44, 45, 50, 55, 56, 100, 106},
     attack : {44, 45, 50, 54, 55, 56},
     defense : {45, 50, 55},
     sp_attack : {45, 50, 55},
     sp_defense : {50},
     speed : {50},
     type1 : {""}, type2 : {""}, generation : {""}]

ScoreTargets ==
    [name : {<<"T">>},
     hp : {50, 100},
     attack : {50}, defense : {50}, sp_attack : {50}, sp_defense : {50},
     speed : {50},
     type1 : {""}, type2 : {""}, generation : {""}]

InitScore ==
    /\ today = 0
    /\ pc = "scoring"
    /\ pokemonData \in {<<g>> : g \in ScoreCandidates}
    /\ targetPokemon \in ScoreTargets
    /\ guesses = << >>
    /\ gameHistoryString = << >>
    /\ hintsUsed = NoHints
    /\ gameWon = FALSE
    /\ localStorage = << >>
    /\ message = ""
    /\ lastEvent = Event("load", << >>)

\* The record is scored against the target and pushed with its feedback, as
\* handleSubmitGuess does with the record it found.
ScoreGuess ==
    /\ pc = "scoring"
    /\ pc' = "scored"
    /\ guesses' = Append(guesses,
            [name |-> pokemonData[1].name,
             pokemon |-> pokemonData[1],
             feedback |-> compareGuess(pokemonData[1], targetPokemon)])
    /\ lastEvent' = Event("score", << >>)
    /\ UNCHANGED <<today, pokemonData, targetPokemon, gameHistoryString,
                   hintsUsed, gameWon, localStorage, message>>

NextScore == ScoreGuess

\* compareGuess applied to every candidate and target.
SpecScore == InitScore /\ [][NextScore]_vars

-----------------------------------------------------------------------------
(* The selector on its own *)

MaxRecords == 4

\* Record number i of a dataset of distinct names.
SelectRecord(i) ==
    [name |-> <<"R", Digits[i + 1]>>, hp |-> i, attack |-> i, defense |-> i,
     sp_attack |-> i, sp_defense |-> i, speed |-> i,
     type1 |-> "normal", type2 |-> "", generation |-> "1"]

\* The datasets of 1 to MaxRecords records.
SelectDatasets ==
    {[i \in 1..n |-> SelectRecord(i)] : n \in 1..MaxRecords}

\* First draws of the generator as 32-bit words: the least and the greatest,
\* and words on either side of a quarter, a third, a half and three
\* quarters of 2^32.
SelectDraws ==
    {<<hi, lo>> : hi \in {0, 16383, 16384, 21845, 32767, 32768, 49151, 49152,
                          65535},
                  lo \in {0, 1, 21845, 21846, 65535}}

InitSelect ==
    /\ today \in 0..MaxDay
    /\ pc = "selecting"
    /\ pokemonData \in SelectDatasets
    /\ targetPokemon = NullPokemon
    /\ guesses = << >>
    /\ gameHistoryString = << >>
    /\ hintsUsed = NoHints
    /\ gameWon = FALSE
    /\ localStorage = << >>
    /\ message = ""
    /\ lastEvent = Event("load", << >>)

\* targetPokemon = selectDailyPokemon(pokemonData) on the day it is; the
\* event records the generator's first draw.
SelectDaily ==
    /\ pc = "selecting"
    /\ pc' = "selected"
    /\ targetPokemon' = selectDailyPokemon(pokemonData, DateOf(today))
    /\ lastEvent' = Event("select",
                          sfc32(seededRandom(getDailySeed(DateOf(today)))).t)
    /\ UNCHANGED <<today, pokemonData, session, localStorage, message>>

\* The selection when the generator's first draw is the word t.
SelectDrawn(t) ==
    /\ pc = "selecting"
    /\ pc' = "selected"
    /\ targetPokemon' = SelectByDraw(pokemonData, t)
    /\ lastEvent' = Event("select", t)
    /\ UNCHANGED <<today, pokemonData, session, localStorage, message>>

NextSelect ==
    \/ SelectDaily
    \/ \E t \in SelectDraws : SelectDrawn(t)

\* selectDailyPokemon applied to every dataset, on every day and draw.
SpecSelect == InitSelect /\ [][NextSelect]_vars

-----------------------------------------------------------------------------
(* Properties *)

\* The stored item is a state object stamped with today's date.
StoredForToday ==
    /\ localStorage # << >>
    /\ localStorage[1].parses
    /\ localStorage[1].value.date = getDailySeed(DateOf(today))

\* The session's won flag: the global while the listeners are registered,
\* otherwise what a restore would make of the stored item.
SessionWon ==
    IF pc = "ready" THEN gameWon
    ELSE StoredForToday /\ localStorage[1].value.gameWon

\* The step is an invocation of handleSubmitGuess (of handleHintClick).
SubmitStep == pc = "ready" /\ lastEvent'.op = "submit"
HintStep == pc = "ready" /\ lastEvent'.op = "hint"

\* The name typed in the step's event, trimmed and in lower case.
TypedName == toLowerCase(trim(lastEvent'.arg))

HintCount == Cardinality({i \in 1..Len(HINTS) : hintsUsed[HINTS[i]]})

\* C1: won becomes true only in a step of handleSubmitGuess that appends a
\* guess whose name equals the target's name case-insensitively, and every
\* such step makes it true; with the date and the stored stamp unchanged it
\* never becomes false again; handleHintClick never changes it.
C1_WonOnlyByMatchingGuess ==
    [][ /\ (~SessionWon /\ SessionWon') =>
              /\ SubmitStep
              /\ guesses' = Append(guesses, guesses'[Len(guesses')])
              /\ toLowerCase(guesses'[Len(guesses')].name)
                    = toLowerCase(targetPokemon.name)
              /\ TypedName = toLowerCase(targetPokemon.name)
        /\ (SubmitStep /\ ~gameWon /\ Len(guesses') > Len(guesses)
              /\ TypedName = toLowerCase(targetPokemon.name)) => gameWon'
        /\ (SessionWon /\ today' = today /\ StoredForToday) => SessionWon'
        /\ HintStep => (gameWon' = gameWon)
      ]_vars

\* C1 witness: the game was won by guessing the target after a hint, and
\* the win has survived a reload.
C1_Witness ==
    /\ pc = "ready"
    /\ gameWon
    /\ lastEvent = Event("fetch-resolved", <<"restored">>)
    /\ hintsUsed.type1
    /\ guesses[Len(guesses)].name = targetPokemon.name

\* C2: once won, handleSubmitGuess changes neither the guesses, the hint
\* flags, won, the history string nor the stored item, whatever is typed.
C2_WonRejectsEverySubmit ==
    [][ (SubmitStep /\ gameWon) =>
            UNCHANGED <<guesses, hintsUsed, gameWon, gameHistoryString,
                        localStorage>> ]_vars

\* C2 witness: the game is won and the last event was the submission of a
\* dataset name that is not among the guesses.
C2_Witness ==
    /\ pc = "ready"
    /\ gameWon
    /\ lastEvent.op = "submit"
    /\ \E i \in 1..Len(pokemonData) :
          /\ toLowerCase(pokemonData[i].name) = toLowerCase(trim(lastEvent.arg))
          /\ \A j \in 1..Len(guesses) : guesses[j].name # pokemonData[i].name

\* No two guesses have the same name, case ignored.
NoDuplicateGuesses ==
    \A i, j \in 1..Len(guesses) :
        i # j => toLowerCase(guesses[i].name) # toLowerCase(guesses[j].name)

\* C3: no two guesses have names equal case-insensitively, and submitting a
\* name that matches a guessed one leaves the guesses as they are (reported
\* as a duplicate unless the game is won).
C3_NoDuplicateGuess ==
    /\ []NoDuplicateGuesses
    /\ [][ (SubmitStep /\ \E i \in 1..Len(guesses) :
                             toLowerCase(guesses[i].name) = TypedName) =>
                /\ guesses' = guesses
                /\ ~gameWon => message' = MsgDuplicate ]_vars

\* C3 witness: a duplicate was reported for a name typed in another case
\* than the guessed record's name.
C3_Witness ==
    /\ message = MsgDuplicate
    /\ lastEvent.op = "submit"
    /\ \E i \in 1..Len(guesses) :
          /\ guesses[i].name # trim(lastEvent.arg)
          /\ toLowerCase(guesses[i].name) = toLowerCase(trim(lastEvent.arg))

\* C4: the history string is as long as the guesses and the revealed hints
\* together, in memory and in the stored state object.
C4_HistoryLength ==
    /\ Len(gameHistoryString) = Len(guesses) + HintCount
    /\ (localStorage # << >> /\ localStorage[1].parses) =>
          LET state == localStorage[1].value
          IN  Len(state.gameHistoryString) =
                 Len(state.guesses)
                 + Cardinality({i \in 1..Len(HINTS) : state.hintsUsed[HINTS[i]]})

\* C4 witness: a restored session with a guess and two hints.
C4_Witness ==
    /\ lastEvent = Event("fetch-resolved", <<"restored">>)
    /\ Len(guesses) = 1
    /\ HintCount = 2
    /\ Len(gameHistoryString) = 3

\* C5: handleHintClick('type2') on a target without a second type leaves
\* the type2 flag false and the history string as it is.
C5_Type2HintUnavailable ==
    [][ (HintStep /\ lastEvent'.arg = <<"type2">> /\ targetPokemon.type2 = "") =>
            /\ hintsUsed'.type2 = FALSE
            /\ gameHistoryString' = gameHistoryString ]_vars

\* C6: every guess of the session in memory carries the feedback of its
\* record against the target in memory; in particular a restored session
\* was scored against the target of the day it is restored on.
C6_GuessesScoredAgainstTarget ==
    pc = "ready" =>
        \A i \in 1..Len(guesses) :
            guesses[i].feedback = compareGuess(guesses[i].pokemon, targetPokemon)

\* The session has no guess, no hint, no win and no history.
IdleSession(g, hist, hints, won) ==
    g = << >> /\ hist = << >> /\ hints = NoHints /\ won = FALSE

\* The step is the continuation of initializeGame after the fetch.
RestoreStep == pc = "fetching" /\ lastEvent'.op = "fetch-resolved"

\* C7: loadGameState on a state object stamped with another date than
\* today's leaves an idle session and removes the stored item.
C7_StaleStateDiscarded ==
    [][ (RestoreStep /\ localStorage # << >> /\ localStorage[1].parses
            /\ localStorage[1].value.date # getDailySeed(DateOf(today))) =>
            /\ IdleSession(guesses', gameHistoryString', hintsUsed', gameWon')
            /\ localStorage' = << >>
            /\ pc' = "ready" ]_vars

\* C7 witness: a stored state was removed as stale and the session is idle.
C7_Witness ==
    /\ lastEvent = Event("fetch-resolved", <<"removed">>)
    /\ today > 0
    /\ localStorage = << >>
    /\ IdleSession(guesses, gameHistoryString, hintsUsed, gameWon)

\* C8: a handler step that changes the session leaves, as the stored item,
\* the session after the step stamped with today's date; and loading an item
\* stamped with today's date makes the session the stored one.
C8_SavedAfterEveryChange ==
    [][ /\ ((SubmitStep \/ HintStep) /\ session' # session) =>
              localStorage' =
                 << [parses |-> TRUE,
                     value |-> [date |-> getDailySeed(DateOf(today)),
                                guesses |-> guesses',
                                hintsUsed |-> hintsUsed',
                                gameWon |-> gameWon',
                                gameHistoryString |-> gameHistoryString']] >>
        /\ (RestoreStep /\ StoredForToday) =>
              /\ guesses' = localStorage[1].value.guesses
              /\ hintsUsed' = localStorage[1].value.hintsUsed
              /\ gameWon' = localStorage[1].value.gameWon
              /\ gameHistoryString' = localStorage[1].value.gameHistoryString
              /\ localStorage' = localStorage
              /\ pc' = "ready"
      ]_vars

\* C8 witness: a won session with two guesses and three hints is back in
\* memory after a reload, equal to the stored one.
C8_Witness ==
    /\ lastEvent = Event("fetch-resolved", <<"restored">>)
    /\ Len(guesses) = 2
    /\ HintCount = 3
    /\ gameWon
    /\ localStorage[1].value.guesses = guesses
    /\ localStorage[1].value.gameHistoryString = gameHistoryString

\* C9: when the stored text does not parse, initializeGame still completes
\* with an idle session and registers the listeners.
C9_ParseFailureIsCacheMiss ==
    [][ (RestoreStep /\ localStorage # << >> /\ ~localStorage[1].parses) =>
            /\ pc' = "ready"
            /\ IdleSession(guesses', gameHistoryString', hintsUsed', gameWon')
      ]_vars

\* C10: a submission whose trimmed name is empty, or matches no record of
\* the dataset case-insensitively, changes neither the guesses, the hint
\* flags, won, the history string nor the stored item, and unless the game
\* is won it is reported as empty, respectively invalid.
C10_RejectedSubmitChangesNothing ==
    [][ /\ (SubmitStep /\ \A k \in 1..Len(lastEvent'.arg) : lastEvent'.arg[k] = " ") =>
              /\ UNCHANGED <<guesses, hintsUsed, gameWon, gameHistoryString,
                             localStorage>>
              /\ ~gameWon => message' = MsgEmpty
        /\ (SubmitStep /\ (\E k \in 1..Len(lastEvent'.arg) : lastEvent'.arg[k] # " ")
              /\ \A i \in 1..Len(pokemonData) :
                    toLowerCase(pokemonData[i].name) # TypedName) =>
              /\ UNCHANGED <<guesses, hintsUsed, gameWon, gameHistoryString,
                             localStorage>>
              /\ ~gameWon => message' = MsgInvalid
      ]_vars

\* C10 witness: an unknown name was reported as invalid in a session that
\* has a guess and a hint.
C10_Witness ==
    /\ message = MsgInvalid
    /\ lastEvent = Event("submit", <<"C", "y">>)
    /\ Len(guesses) = 1
    /\ hintsUsed.generation
    /\ localStorage # << >>

\* How often the symbol occurs in the history string.
Occurrences(hist, symbol) ==
    Cardinality({i \in 1..Len(hist) : hist[i] = symbol})

\* C11: handleHintClick on a hint whose flag is set, or once the game is
\* won, changes neither the guesses, the hint flags, won, the history string
\* nor the stored item; and no hint symbol occurs twice in the history
\* string.
C11_RepeatedHintRejected ==
    /\ [](\A symbol \in {"T", "Y", "G"} :
              Occurrences(gameHistoryString, symbol) <= 1)
    /\ [][ (HintStep /\ (gameWon \/ hintsUsed[lastEvent'.arg[1]])) =>
              UNCHANGED <<guesses, hintsUsed, gameWon, gameHistoryString,
                          localStorage>> ]_vars

\* C11 witness: in a game not won, the type1 hint was clicked again after it
\* had been revealed and a guess made; the history string has its one 'T'.
C11_Witness ==
    /\ pc = "ready"
    /\ ~gameWon
    /\ lastEvent = Event("hint", <<"type1">>)
    /\ hintsUsed.type1
    /\ gameHistoryString = <<"T", "X">>

\* C12: loading a state object stamped with today's date whose gameWon is
\* true leaves the game won with the stored guesses, feedback included, as
\* they were stored, and registers the listeners; and once the game is won
\* no handler changes the session or the stored item.
C12_WonSessionRestoredAsStored ==
    [][ /\ (RestoreStep /\ StoredForToday /\ localStorage[1].value.gameWon) =>
              /\ gameWon'
              /\ guesses' = localStorage[1].value.guesses
              /\ localStorage' = localStorage
              /\ pc' = "ready"
        /\ ((SubmitStep \/ HintStep) /\ gameWon) =>
              UNCHANGED <<session, localStorage>>
      ]_vars

\* C12 witness: a won session of two guesses is back after a reload, and
\* the feedback of its first guess is not what the scorer gives against the
\* target now selected.
C12_Witness ==
    /\ pc = "ready"
    /\ gameWon
    /\ lastEvent = Event("fetch-resolved", <<"restored">>)
    /\ Len(guesses) = 2
    /\ guesses[1].feedback # compareGuess(guesses[1].pokemon, targetPokemon)

\* The history string read as a record of the session: one symbol per guess,
\* 'O' only as the last guess's symbol and exactly when the game is won, and
\* a hint's symbol exactly when its flag is set.
HistoryRecordsSession ==
    /\ Occurrences(gameHistoryString, "X") + Occurrences(gameHistoryString, "O")
          = Len(guesses)
    /\ Occurrences(gameHistoryString, "O") = (IF gameWon THEN 1 ELSE 0)
    /\ \A i, j \in 1..Len(gameHistoryString) :
          (gameHistoryString[i] = "O" /\ i < j) => gameHistoryString[j] # "X"
    /\ (Occurrences(gameHistoryString, "T") = 1) = hintsUsed.type1
    /\ (Occurrences(gameHistoryString, "Y") = 1) = hintsUsed.type2
    /\ (Occurrences(gameHistoryString, "G") = 1) = hintsUsed.generation

\* C18: while the listeners are registered every step leaves the history
\* string as it is or appends one symbol to it: a handleSubmitGuess that adds
\* a guess appends 'O' when the typed name is the target's and 'X' otherwise,
\* a handleHintClick that sets a flag appends 'T' for type1, 'Y' for type2
\* and 'G' for generation; the history string records the session in order.
C18_HistoryAppendOnly ==
    /\ []HistoryRecordsSession
    /\ [][ /\ (pc = "ready" /\ pc' = "ready") =>
                 \/ gameHistoryString' = gameHistoryString
                 \/ /\ Len(gameHistoryString') = Len(gameHistoryString) + 1
                    /\ SubSeq(gameHistoryString', 1, Len(gameHistoryString))
                          = gameHistoryString
           /\ (SubmitStep /\ Len(guesses') > Len(guesses)) =>
                 gameHistoryString' =
                    Append(gameHistoryString,
                           IF TypedName = toLowerCase(targetPokemon.name)
                           THEN "O" ELSE "X")
           /\ (SubmitStep /\ guesses' = guesses) =>
                 gameHistoryString' = gameHistoryString
           /\ (HintStep /\ hintsUsed' # hintsUsed) =>
                 gameHistoryString' =
                    Append(gameHistoryString,
                           IF lastEvent'.arg = <<"type1">> THEN "T"
                           ELSE IF lastEvent'.arg = <<"type2">> THEN "Y"
                           ELSE "G")
           /\ (HintStep /\ hintsUsed' = hintsUsed) =>
                 gameHistoryString' = gameHistoryString
         ]_vars

\* C18 witness: a session of a hint, a wrong guess, two hints and the
\* winning guess, in that order.
C18_Witness ==
    /\ pc = "ready"
    /\ gameHistoryString = <<"T", "X", "Y", "G", "O">>
    /\ Len(guesses) = 2
    /\ gameWon

\* C19: when the fetch fails no target is selected, the session stays idle
\* and the stored item is left alone; and from then on, until the page is
\* loaded again, initializeGame is not resumed and the target, the dataset,
\* the session and the stored item never change.
C19_LoadFailureIsTerminal ==
    [][ /\ (pc = "fetching" /\ lastEvent'.op = "fetch-failed") =>
              /\ pc' = "failed"
              /\ targetPokemon' = NullPokemon
              /\ pokemonData' = << >>
              /\ IdleSession(guesses', gameHistoryString', hintsUsed', gameWon')
              /\ localStorage' = localStorage
        /\ (pc = "failed" /\ lastEvent'.op # "load") =>
              /\ pc' = "failed"
              /\ lastEvent'.op \notin {"submit", "hint", "fetch-resolved",
                                       "fetch-failed"}
              /\ UNCHANGED <<targetPokemon, pokemonData, session, localStorage>>
      ]_vars

\* C19 witness: the fetch has failed on a page whose store holds a session
\* of today with a guess; nothing of it is in memory.
C19_Witness ==
    /\ pc = "failed"
    /\ lastEvent.op = "fetch-failed"
    /\ StoredForToday
    /\ Len(localStorage[1].value.guesses) = 1
    /\ targetPokemon = NullPokemon
    /\ IdleSession(guesses, gameHistoryString, hintsUsed, gameWon)

\* The value of the record under feedback entry i: the attribute for the
\* first six, the sum of the six attributes for the seventh.
EntryValue(pokemon, i) ==
    CASE i = 1 -> pokemon.hp
      [] i = 2 -> pokemon.attack
      [] i = 3 -> pokemon.defense
      [] i = 4 -> pokemon.sp_attack
      [] i = 5 -> pokemon.sp_defense
      [] i = 6 -> pokemon.speed
      [] i = 7 -> pokemon.hp + pokemon.attack + pokemon.defense
                    + pokemon.sp_attack + pokemon.sp_defense + pokemon.speed

\* The distance between the candidate's and the target's value of entry i.
EntryDistance(i) ==
    LET g == EntryValue(pokemonData[1], i)
        t == EntryValue(targetPokemon, i)
    IN  IF g < t THEN t - g ELSE g - t

\* The feedback of the scored candidate.
Scored == guesses[1].feedback

\* C13: each of the seven entries is green iff the candidate's value equals
\* the target's, yellow iff the values differ by at least 1 and at most 5
\* (at most 20 for the total), and red iff they differ by more.
C13_ClassByDistance ==
    pc = "scored" =>
        \A i \in 1..7 :
            LET dist == EntryDistance(i)
                limit == IF i = 7 THEN 20 ELSE 5
            IN  /\ Scored[i].class \in {"green", "yellow", "red"}
                /\ (Scored[i].class = "green") = (dist = 0)
                /\ (Scored[i].class = "yellow") = (dist >= 1 /\ dist <= limit)
                /\ (Scored[i].class = "red") = (dist > limit)

\* C13 witness: hp differs by 6 and is red, defense by exactly 5 and is
\* yellow, sp_defense is equal and green, the total differs by exactly 20
\* and is yellow.
C13_Witness ==
    /\ pc = "scored"
    /\ EntryDistance(1) = 6 /\ Scored[1].class = "red"
    /\ EntryDistance(3) = 5 /\ Scored[3].class = "yellow"
    /\ EntryDistance(5) = 0 /\ Scored[5].class = "green"
    /\ EntryDistance(7) = 20 /\ Scored[7].class = "yellow"

\* C14: each of the seven entries has the indicator "higher" iff the
\* candidate's value is below the target's, "lower" iff it is above and none
\* iff the values are equal; the indicator is none exactly when the class is
\* green.
C14_DirectionByOrder ==
    pc = "scored" =>
        \A i \in 1..7 :
            LET g == EntryValue(pokemonData[1], i)
                t == EntryValue(targetPokemon, i)
            IN  /\ Scored[i].indicator \in {"higher", "lower", ""}
                /\ (Scored[i].indicator = "higher") = (g < t)
                /\ (Scored[i].indicator = "lower") = (g > t)
                /\ (Scored[i].indicator = "") = (g = t)
                /\ (Scored[i].indicator = "") = (Scored[i].class = "green")

\* C14 witness: hp is below the target's, attack above, and the totals are
\* equal.
C14_Witness ==
    /\ pc = "scored"
    /\ Scored[1].indicator = "higher"
    /\ Scored[2].indicator = "lower"
    /\ Scored[7].indicator = ""
    /\ Scored[7].class = "green"

\* C15: the feedback has exactly seven entries: hp, attack, defense,
\* sp_attack, sp_defense, speed with the candidate's values, then 'total'
\* with the sum of the candidate's six values, classed and directed by its
\* comparison with the sum of the target's six values.
C15_SevenEntries ==
    pc = "scored" =>
        /\ Len(Scored) = 7
        /\ [i \in 1..7 |-> Scored[i].stat]
              = <<"hp", "attack", "defense", "sp_attack", "sp_defense",
                  "speed", "total">>
        /\ \A i \in 1..7 : Scored[i].value = EntryValue(pokemonData[1], i)
        /\ (Scored[7].class = "green")
              = (EntryValue(pokemonData[1], 7) = EntryValue(targetPokemon, 7))
        /\ (Scored[7].indicator = "higher")
              = (EntryValue(pokemonData[1], 7) < EntryValue(targetPokemon, 7))

\* C15 witness: the total entry carries the sum 322 of a candidate none of
\* whose attributes is 322, against a target whose sum is 300.
C15_Witness ==
    /\ pc = "scored"
    /\ Len(Scored) = 7
    /\ Scored[7].stat = "total"
    /\ Scored[7].value = 322
    /\ EntryValue(targetPokemon, 7) = 300
    /\ Scored[7].class = "red"

\* The number the word t stands for is at least k * 2^32 / n, that is,
\* t * n >= k * 2^32, compared 16 bits at a time.
DrawTimesAtLeast(t, n, k) ==
    LET low  == t[2] * n
        high == (t[1] * n) + (low \div (256 * 256))
    IN  high >= k * (256 * 256)

\* C20: for a dataset of N >= 1 records and a first draw t / 2^32, the
\* selected record is dataset[index] for the one index in 0..N-1 with
\* index <= t * N / 2^32 < index + 1; it is a record of the dataset and
\* never undefined.
C20_SelectsRecordAtFloor ==
    pc = "selected" =>
        LET n == Len(pokemonData)
            t == lastEvent.arg
        IN  /\ targetPokemon # UndefinedPokemon
            /\ \E index \in 0..(n - 1) :
                  /\ DrawTimesAtLeast(t, n, index)
                  /\ ~DrawTimesAtLeast(t, n, index + 1)
                  /\ targetPokemon = pokemonData[index + 1]

\* C20 witness: the greatest draw, 4294967295 / 2^32, on a dataset of three
\* records selects the last one.
C20_Witness ==
    /\ pc = "selected"
    /\ lastEvent.arg = <<65535, 65535>>
    /\ Len(pokemonData) = 3
    /\ targetPokemon = pokemonData[3]

\* C16: when the fetch resolves with an empty dataset no target is
\* selected, the target staying null, and the listeners are not
\* registered.
C16_EmptyDatasetSelectsNothing ==
    [][ (RestoreStep /\ pokemonData' = << >>) =>
            /\ targetPokemon' = NullPokemon
            /\ pc' # "ready" ]_vars

\* The stored property of the state object, or the fresh session's value
\* when the object lacks it.
StoredOrDefault(key, default) ==
    IF key \in DOMAIN localStorage[1].value
    THEN localStorage[1].value[key] ELSE default

\* C17: loading a state object stamped with today's date that lacks one of
\* guesses, hintsUsed, gameWon and gameHistoryString takes the fresh
\* session's value for what is lacking and the stored value for the rest,
\* and registers the listeners.
C17_MissingFieldIsDefault ==
    [][ (RestoreStep /\ StoredForToday
            /\ ~(StateFields \subseteq DOMAIN localStorage[1].value)) =>
            /\ guesses' = StoredOrDefault("guesses", << >>)
            /\ hintsUsed' = StoredOrDefault("hintsUsed", NoHints)
            /\ gameWon' = StoredOrDefault("gameWon", FALSE)
            /\ gameHistoryString' = StoredOrDefault("gameHistoryString", << >>)
            /\ pc' = "ready" ]_vars

\* initializeGame has just selected the target, on day d.
JustSelected(d) ==
    pc = "ready" /\ lastEvent.op = "fetch-resolved" /\ today = d

SessionGuesses ==
    IF pc = "ready" THEN guesses
    ELSE IF StoredForToday THEN localStorage[1].value.guesses ELSE << >>

SessionHints ==
    IF pc = "ready" THEN hintsUsed
    ELSE IF StoredForToday THEN localStorage[1].value.hintsUsed ELSE NoHints

\* 0 for an idle session, 1 for one in progress, 2 for a won one.
SessionPhase ==
    IF SessionWon THEN 2
    ELSE IF SessionGuesses = << >> /\ SessionHints = NoHints THEN 0
    ELSE 1

\* g2 is g1, or g1 with one more entry after it.
GrowsByAppending(g1, g2) ==
    /\ Len(g2) \in {Len(g1), Len(g1) + 1}
    /\ \A i \in 1..Len(g1) : g2[i] = g1[i]

\* C22: while the date stays the same, a session of that date (idle, or
\* stored under today's stamp) keeps its guesses or gets one more appended,
\* keeps every revealed hint flag, never leaves won and never goes back in
\* idle -> in progress -> won, through handler steps, page loads and
\* restores alike; between the handlers' steps the same holds of the
\* globals whatever the date; and the item stored under today's stamp is
\* the session in memory.
C22_SessionOnlyAdvances ==
    /\ []((pc = "ready" /\ StoredForToday) =>
             /\ localStorage[1].value.guesses = guesses
             /\ localStorage[1].value.hintsUsed = hintsUsed
             /\ localStorage[1].value.gameWon = gameWon)
    /\ [][ /\ (today' = today
                 /\ (StoredForToday \/ pc # "ready"
                        \/ IdleSession(guesses, gameHistoryString, hintsUsed,
                                       gameWon))) =>
                 /\ GrowsByAppending(SessionGuesses, SessionGuesses')
                 /\ \A i \in 1..Len(HINTS) :
                       SessionHints[HINTS[i]] => SessionHints'[HINTS[i]]
                 /\ SessionWon => SessionWon'
                 /\ SessionPhase' >= SessionPhase
           /\ (pc = "ready" /\ pc' = "ready") =>
                 /\ GrowsByAppending(guesses, guesses')
                 /\ \A i \in 1..Len(HINTS) :
                       hintsUsed[HINTS[i]] => hintsUsed'[HINTS[i]]
                 /\ gameWon => gameWon'
         ]_vars

\* C22 witness: a session of the second day in progress, with a hint, two
\* wrong guesses and another hint, is back in memory after a reload on that
\* day.
C22_Witness ==
    /\ pc = "ready"
    /\ today = 1
    /\ lastEvent = Event("fetch-resolved", <<"restored">>)
    /\ gameHistoryString = <<"G", "X", "X", "T">>
    /\ SessionPhase = 1

\* The target's name is the name of guess i, case ignored.
GuessIsTarget(i) ==
    toLowerCase(guesses[i].name) = toLowerCase(targetPokemon.name)

\* C23: while the listeners are registered, the game is won iff the
\* target's name is among the guesses, and then it is the last guess and
\* 'O' occurs exactly once in the history string, as its last symbol; and
\* while the game is not won, submitting the target's name adds the guess
\* and wins.
C23_WonIffTargetGuessed ==
    /\ [](pc = "ready" =>
             /\ gameWon = (\E i \in 1..Len(guesses) : GuessIsTarget(i))
             /\ gameWon =>
                   /\ GuessIsTarget(Len(guesses))
                   /\ Occurrences(gameHistoryString, "O") = 1
                   /\ gameHistoryString[Len(gameHistoryString)] = "O")
    /\ [][ (SubmitStep /\ ~gameWon
               /\ TypedName = toLowerCase(targetPokemon.name)) =>
               /\ Len(guesses') = Len(guesses) + 1
               /\ gameWon' ]_vars

\* C24: every handleSubmitGuess and handleHintClick runs with the dataset
\* loaded, a record of it selected as the target and loadGameState done;
\* and loadGameState runs only while no guess and no hint has been made on
\* the page, so that it overwrites none.
C24_HandlersAfterInitialization ==
    /\ [](pc = "ready" =>
             /\ pokemonData # << >>
             /\ targetPokemon # NullPokemon
             /\ \E i \in 1..Len(pokemonData) : targetPokemon = pokemonData[i])
    /\ [][ /\ lastEvent'.op \in {"submit", "hint"} =>
                 /\ pc = "ready"
                 /\ pc' = "ready"
           /\ lastEvent'.op = "fetch-resolved" =>
                 /\ pc = "fetching"
                 /\ IdleSession(guesses, gameHistoryString, hintsUsed, gameWon)
         ]_vars

\* C24 witness: the first guess of a page, a wrong one, has been scored
\* against the record selected for the day.
C24_Witness ==
    /\ pc = "ready"
    /\ lastEvent.op = "submit"
    /\ Len(guesses) = 1
    /\ hintsUsed = NoHints
    /\ ~gameWon
    /\ targetPokemon = selectDailyPokemon(pokemonData, DateOf(today))
    /\ guesses[1].feedback = compareGuess(guesses[1].pokemon, targetPokemon)

=============================================================================
